---- MODULE Spec2Model ----
(***************************************************************************)
(* Model of package pak (src/pak.go): the reader and the writer of         *)
(* chromium .pak resource files.  Streams are sequences of bytes; every    *)
(* integer is written and read little-endian at its width.  A uint32 is a  *)
(* pair << high 16 bits, low 16 bits >>, and its arithmetic wraps at 2^32  *)
(* as Go's does.                                                           *)
(***************************************************************************)
EXTENDS Integers, Sequences, FiniteSets, TLC

(***************************************************************************)
(* Bounds of the model.                                                    *)
(***************************************************************************)
\* most resources a caller puts in a PakFile before writing it
MaxRes == 2
\* longest payload a caller inserts
MaxLen == 1
\* most index entries of a hand-made stream
MaxEntries == 3
\* most payload bytes of a hand-made stream
MaxPayload == 2

(***************************************************************************)
(* Program constants.                                                      *)
(***************************************************************************)
EncodingBinary == 0
EncodingUTF8 == 1
EncodingUTF16 == 2

\* const headerLength = 4 + 4 + 1
headerLength == 4 + 4 + 1

U8 == 2 ^ 8
U16 == 2 ^ 16

(***************************************************************************)
(* uint32: << high half, low half >>.                                      *)
(***************************************************************************)
\* uint32(n) of a small non-negative n
U32(n) == << (n \div U16) % U16, n % U16 >>
\* the number a uint32 stands for, when it is small enough to count with
ToInt(a) == a[1] * U16 + a[2]
MaxU32 == << U16 - 1, U16 - 1 >>
\* a + b, a - b, a * k (k small), a < b
Add32(a, b) == << (a[1] + b[1] + ((a[2] + b[2]) \div U16)) % U16, (a[2] + b[2]) % U16 >>
Sub32(a, b) == << (a[1] - b[1] - (IF a[2] < b[2] THEN 1 ELSE 0)) % U16, (a[2] - b[2]) % U16 >>
Mul32(a, k) == << (a[1] * k + ((a[2] * k) \div U16)) % U16, (a[2] * k) % U16 >>
Lt32(a, b) == a[1] < b[1] \/ (a[1] = b[1] /\ a[2] < b[2])

(***************************************************************************)
(* Values: pointers, errors, maps.                                         *)
(***************************************************************************)
\* a nil pointer, and a pointer to x
Nil == << >>
Ptr(x) == << x >>

\* error values; id is the resource id an error message names, -1 for none
ErrNil == [msg |-> "nil", id |-> -1]
Errorf(m, resId) == [msg |-> m, id |-> resId]
EOF == Errorf("EOF", -1)
ErrUnexpectedEOF == Errorf("unexpected EOF", -1)
ErrLastId == Errorf("error reading resources: last id != 0", -1)
ErrPNil == Errorf("error writing pak: p == nil", -1)
PanicIndex == Errorf("panic: index out of range", -1)
\* whatever error the writer's Write returns
ErrWriter == Errorf("write failed", -1)
ErrResource(resId) == Errorf("error reading resource id=%d", resId)

\* make(map[uint16][]byte)
EmptyMap == [k \in {} |-> << >>]

\* m[k] = v
MapPut(m, k, v) == [x \in (DOMAIN m) \cup {k} |-> IF x = k THEN v ELSE m[x]]

(***************************************************************************)
(* encoding/binary, little-endian.                                         *)
(***************************************************************************)
\* binary.Write(w, binary.LittleEndian, v) for a v of n bytes
LE(v, n) == [k \in 1..n |-> (v \div (U8 ^ (k - 1))) % U8]

RECURSIVE FromLE(_)
\* the integer a little-endian byte sequence stands for
FromLE(bs) == IF bs = << >> THEN 0 ELSE Head(bs) + U8 * FromLE(Tail(bs))

\* a uint32 on the wire and back
LE32(a) == LE(a[2], 2) \o LE(a[1], 2)
FromLE32(bs) == << FromLE(SubSeq(bs, 3, 4)), FromLE(SubSeq(bs, 1, 2)) >>

\* binary.Read(r, binary.LittleEndian, &x) for an x of size bytes, the reader
\* holding stream s with at bytes consumed: io.ReadFull underneath
BinaryRead(s, at, size) ==
    IF Len(s) - at >= size
    THEN [err |-> ErrNil, pos |-> at + size,
          val |-> IF size = 4 THEN FromLE32(SubSeq(s, at + 1, at + size))
                  ELSE FromLE(SubSeq(s, at + 1, at + size))]
    ELSE [err |-> IF Len(s) <= at THEN EOF ELSE ErrUnexpectedEOF, pos |-> Len(s), val |-> 0]

(***************************************************************************)
(* r.Read(resData): one call of the reader's Read with a buffer of n bytes.*)
(* Two readers of the standard library: bytes.Reader returns io.EOF at the *)
(* end of its data whatever the buffer; bytes.Buffer (and os.File) return  *)
(* 0, nil for an empty buffer.                                             *)
(***************************************************************************)
ReaderKinds == {"bytes.Reader", "bytes.Buffer"}

\* the buffer's length n is a uint32; the count returned is an int
ReaderRead(kind, s, at, n) ==
    IF at >= Len(s)
    THEN IF kind = "bytes.Buffer" /\ n = U32(0)
         THEN [n |-> 0, err |-> ErrNil]
         ELSE [n |-> 0, err |-> EOF]
    ELSE [n |-> IF Lt32(n, U32(Len(s) - at)) THEN ToInt(n) ELSE Len(s) - at, err |-> ErrNil]

(***************************************************************************)
(* Write.                                                                  *)
(***************************************************************************)
\* the orders in which `for resId, _ := range p.Resourses` may yield the keys
KeyOrders(S) == {f \in [1..Cardinality(S) -> S] : \A a, b \in DOMAIN f : f[a] = f[b] => a = b}

RECURSIVE InsertSorted(_, _)
InsertSorted(x, sorted) ==
    IF sorted = << >> THEN << x >>
    ELSE IF x <= Head(sorted) THEN << x >> \o sorted
    ELSE << Head(sorted) >> \o InsertSorted(x, Tail(sorted))

\* the ids left in the order the map yielded them
SortInts_unsorted(ids) == ids

\* the ids in descending order
SortInts_descending(ids) ==
    [k \in 1..Len(ids) |->
        CHOOSE x \in {ids[j] : j \in 1..Len(ids)} :
            Cardinality({y \in {ids[j] : j \in 1..Len(ids)} : y > x}) = k - 1]

RECURSIVE SortInts(_)
\* sort.Ints(ids)
SortInts(ids) == IF ids = << >> THEN << >> ELSE InsertSorted(Head(ids), SortInts(Tail(ids)))

\* the extra entry for the last offset left out of the count
IndexLength_noExtra(n) == Mul32(n, 2 + 4)

\* indexLength := (2 + 4) * (numberOfResources + 1)
IndexLength(n) == Mul32(Add32(n, U32(1)), 2 + 4)

RECURSIVE WriteIndex(_, _, _)
\* the index loop and the extra entry with ID 0 that follows it: the byte
\* sequences handed to the writer, one per call
WriteIndex(ids, res, curOffset) ==
    IF ids = << >>
    THEN << LE(0, 2), LE32(curOffset) >>
    ELSE << LE(Head(ids) % U16, 2), LE32(curOffset) >>
         \o WriteIndex(Tail(ids), res, Add32(curOffset, U32(Len(res[Head(ids) % U16]))))

RECURSIVE WriteResources(_, _)
\* the loop that writes the resources, one call of w.Write per resource
WriteResources(ids, res) ==
    IF ids = << >> THEN << >>
    ELSE << res[Head(ids) % U16] >> \o WriteResources(Tail(ids), res)

\* the calls of the writer Write(w, p) makes, in order, when the map yields its
\* keys in the given order
WriteCalls(pk, order) ==
    LET n == U32(Cardinality(DOMAIN pk.Resourses))
        indexLength == IndexLength(n)
        curOffset == Add32(U32(headerLength), indexLength)
        ids == SortInts(order)
    IN  << LE32(pk.Version), LE32(n), LE(pk.Encoding, 1) >>
        \o WriteIndex(ids, pk.Resourses, curOffset)
        \o WriteResources(ids, pk.Resourses)

RECURSIVE Flatten(_)
\* the bytes a sequence of calls leaves on the writer
Flatten(ss) == IF ss = << >> THEN << >> ELSE Head(ss) \o Flatten(Tail(ss))

\* the bytes Write(w, p) leaves on a writer that accepts every byte
WriteBytes(pk, order) == Flatten(WriteCalls(pk, order))

(***************************************************************************)
(* Inputs.                                                                 *)
(***************************************************************************)
\* sequences over S of length at most n
SeqsUpTo(S, n) == UNION {[1..k -> S] : k \in 0..n}

\* what a caller builds a PakFile from
Versions == {U32(4), << 258, 772 >>, MaxU32}
Encodings == {EncodingBinary, EncodingUTF8, EncodingUTF16}
Ids == {0, 7, 300}
PayloadBytes == {97, 98}
Payloads == SeqsUpTo(PayloadBytes, MaxLen)

\* hand-made streams: a header, index entries (identifier, offset) and payload
\* bytes chosen freely; the count may differ from the number of entries
FIds == {0, 5}
FCounts == {U32(c) : c \in 0..(MaxEntries - 1)} \cup {MaxU32}
\* an offset is the start of the payload plus one of these
FDeltas == {0, 1, 2}
FEntries == SeqsUpTo([id : FIds, delta : FDeltas], MaxEntries)
\* Read never looks into a payload: only the number of bytes varies
FPayloads == {[k \in 1..n |-> 96 + k] : n \in 0..MaxPayload}

RECURSIVE FIndexBytes(_, _)
FIndexBytes(es, base) ==
    IF es = << >> THEN << >>
    ELSE LE(Head(es).id, 2) \o LE32(U32(base + Head(es).delta)) \o FIndexBytes(Tail(es), base)

FStream(count, es, payload) ==
    LE32(U32(4)) \o LE32(count) \o LE(EncodingUTF8, 1)
    \o FIndexBytes(es, headerLength + 6 * Len(es)) \o payload

\* streams cut short inside the header or the index
Prefixes(s) == {SubSeq(s, 1, k) : k \in 0..(Len(s) - 1)}

Truncated ==
    UNION {Prefixes(FStream(c, es, << >>)) :
              c \in FCounts, es \in SeqsUpTo([id : FIds, delta : {0}], MaxEntries)}

Forged == {FStream(c, es, pl) : c \in FCounts, es \in FEntries, pl \in FPayloads} \cup Truncated

(***************************************************************************)
(* State.                                                                  *)
(***************************************************************************)
VARIABLES
    p,                  \* the caller's *PakFile
    werr,               \* the error Write returned
    stream,             \* the bytes on the file or buffer
    rkind,              \* the reader Read is given
    pc,                 \* where the program is
    pos,                \* bytes of stream the reader has handed out
    version,            \* Read's locals
    numberOfResources,
    encoding,
    resInfos,
    i,
    pak,
    ret                 \* what Read returned: [pak, err]

vars == << p, werr, stream, rkind, pc, pos, version, numberOfResources, encoding,
           resInfos, i, pak, ret >>

readLocals == << version, numberOfResources, encoding, resInfos, i, pak >>

NoRet == [pak |-> Nil, err |-> ErrNil]

ReadInit ==
    /\ rkind = "bytes.Buffer"
    /\ pos = 0
    /\ version = U32(0)
    /\ numberOfResources = U32(0)
    /\ encoding = 0
    /\ resInfos = << >>
    /\ i = U32(0)
    /\ pak = Nil
    /\ ret = NoRet

\* a caller starts from a PakFile without resources, or from a nil pointer
Init ==
    /\ p \in {Nil} \cup {Ptr([Version |-> v, Encoding |-> e, Resourses |-> EmptyMap]) :
                            v \in Versions, e \in Encodings}
    /\ werr = ErrNil
    /\ stream = << >>
    /\ pc = "build"
    /\ ReadInit

\* a caller is handed a stream of unknown origin
InitStream ==
    /\ p = Nil
    /\ werr = ErrNil
    /\ stream \in Forged
    /\ pc = "written"
    /\ ReadInit

(***************************************************************************)
(* The caller: build a PakFile, write it, read a stream.                   *)
(***************************************************************************)
\* p.Resourses[id] = data
Insert(id, data) ==
    /\ pc = "build"
    /\ p # Nil
    /\ id \in DOMAIN p[1].Resourses \/ Cardinality(DOMAIN p[1].Resourses) < MaxRes
    /\ p' = Ptr([p[1] EXCEPT !.Resourses = MapPut(@, id, data)])
    /\ UNCHANGED << werr, stream, rkind, pc, pos, readLocals, ret >>

\* Write(w, p), the map yielding its keys in some order; the writer accepts
\* every call (failAt = 0) or fails at its call number failAt, and Write
\* returns at once with what the calls before it left on the writer
Write ==
    /\ pc = "build"
    /\ IF p = Nil
       THEN /\ werr' = ErrPNil
            /\ pc' = "failed"
            /\ UNCHANGED stream
       ELSE \E order \in KeyOrders(DOMAIN p[1].Resourses) :
                \E failAt \in 0..Len(WriteCalls(p[1], order)) :
                    IF failAt = 0
                    THEN /\ stream' = WriteBytes(p[1], order)
                         /\ werr' = ErrNil
                         /\ pc' = "written"
                    ELSE /\ stream' = Flatten(SubSeq(WriteCalls(p[1], order), 1, failAt - 1))
                         /\ werr' = ErrWriter
                         /\ pc' = "failed"
    /\ UNCHANGED << p, rkind, pos, readLocals, ret >>

\* the caller opens a reader on the stream and calls Read(r)
Open(kind) ==
    /\ pc = "written"
    /\ rkind' = kind
    /\ pos' = 0
    /\ pc' = "header"
    /\ UNCHANGED << p, werr, stream, readLocals, ret >>

(***************************************************************************)
(* Read, one step per loop iteration.                                      *)
(***************************************************************************)
\* return nil, err
Fail(e) ==
    /\ ret' = [pak |-> Nil, err |-> e]
    /\ pc' = "done"

\* the three fields of the header, the PakFile and the slice of resourceInfo
ReadHeader ==
    /\ pc = "header"
    /\ LET v == BinaryRead(stream, pos, 4)
           n == BinaryRead(stream, v.pos, 4)
           e == BinaryRead(stream, n.pos, 1)
       IN  IF v.err # ErrNil
           THEN Fail(v.err) /\ pos' = v.pos /\ UNCHANGED readLocals
           ELSE IF n.err # ErrNil
           THEN Fail(n.err) /\ pos' = n.pos /\ version' = v.val
                /\ UNCHANGED << numberOfResources, encoding, resInfos, i, pak >>
           ELSE IF e.err # ErrNil
           THEN Fail(e.err) /\ pos' = e.pos /\ version' = v.val /\ numberOfResources' = n.val
                /\ UNCHANGED << encoding, resInfos, i, pak >>
           ELSE /\ version' = v.val
                /\ numberOfResources' = n.val
                /\ encoding' = e.val
                /\ pak' = Ptr([Version |-> v.val, Encoding |-> e.val, Resourses |-> EmptyMap])
                /\ resInfos' = [k \in 1..ToInt(Add32(n.val, U32(1))) |-> [id |-> 0, offset |-> U32(0)]]
                /\ i' = U32(0)
                /\ pos' = e.pos
                /\ pc' = "index"
                /\ UNCHANGED ret
    /\ UNCHANGED << p, werr, stream, rkind >>

\* the loop condition i < numberOfResources+1, in uint32
IndexLoopCond(idx, n) == Lt32(idx, Add32(n, U32(1)))

\* one iteration of the loop that reads the resource infos
ReadIndexEntry ==
    /\ pc = "index"
    /\ IndexLoopCond(i, numberOfResources)
    /\ LET id == BinaryRead(stream, pos, 2)
           off == BinaryRead(stream, id.pos, 4)
       IN  IF id.err # ErrNil
           THEN Fail(id.err) /\ pos' = id.pos /\ UNCHANGED << resInfos, i >>
           ELSE IF off.err # ErrNil
           THEN Fail(off.err) /\ pos' = off.pos /\ UNCHANGED << resInfos, i >>
           ELSE /\ resInfos' = [resInfos EXCEPT ![ToInt(i) + 1] = [id |-> id.val, offset |-> off.val]]
                /\ i' = Add32(i, U32(1))
                /\ pos' = off.pos
                /\ UNCHANGED << pc, ret >>
    /\ UNCHANGED << p, werr, stream, rkind, version, numberOfResources, encoding, pak >>

\* the first entry checked in place of the last
LastIdNotZero_first(infos, n) == infos[1].id # 0

\* resInfos[numberOfResources].id != 0
LastIdNotZero(infos, n) == infos[ToInt(n) + 1].id # 0

\* the check of the last id, after the loop
CheckLastId ==
    /\ pc = "index"
    /\ ~ IndexLoopCond(i, numberOfResources)
    /\ IF ~ Lt32(numberOfResources, U32(Len(resInfos)))
       THEN Fail(PanicIndex) /\ UNCHANGED i
       ELSE IF LastIdNotZero(resInfos, numberOfResources)
       THEN Fail(ErrLastId) /\ UNCHANGED i
       ELSE pc' = "resources" /\ i' = U32(0) /\ UNCHANGED ret
    /\ UNCHANGED << p, werr, stream, rkind, pos, version, numberOfResources, encoding,
                    resInfos, pak >>

\* resLength := resInfos[i+1].offset - resInfos[i].offset
ResLength(infos, idx) == Sub32(infos[ToInt(idx) + 2].offset, infos[ToInt(idx) + 1].offset)

\* one iteration of the loop that reads the resources
ReadResource ==
    /\ pc = "resources"
    /\ Lt32(i, numberOfResources)
    /\ LET resId == resInfos[ToInt(i) + 1].id
           resLength == ResLength(resInfos, i)
           rd == ReaderRead(rkind, stream, pos, resLength)
       IN  /\ pos' = pos + rd.n
           /\ IF rd.err # ErrNil
              THEN Fail(rd.err) /\ UNCHANGED << pak, i >>
              ELSE IF U32(rd.n) # resLength
              THEN Fail(ErrResource(resId)) /\ UNCHANGED << pak, i >>
              ELSE /\ pak' = Ptr([pak[1] EXCEPT !.Resourses =
                                    MapPut(@, resId, SubSeq(stream, pos + 1, pos + rd.n))])
                   /\ i' = Add32(i, U32(1))
                   /\ UNCHANGED << pc, ret >>
    /\ UNCHANGED << p, werr, stream, rkind, version, numberOfResources, encoding, resInfos >>

\* return pak, nil
ReadReturn ==
    /\ pc = "resources"
    /\ ~ Lt32(i, numberOfResources)
    /\ ret' = [pak |-> pak, err |-> ErrNil]
    /\ pc' = "done"
    /\ UNCHANGED << p, werr, stream, rkind, pos, readLocals >>

(***************************************************************************)
(* Specifications.                                                         *)
(***************************************************************************)
\* a PakFile is built, written, and the bytes written are read back
Next ==
    \/ \E id \in Ids, data \in Payloads : Insert(id, data)
    \/ Write
    \/ \E kind \in ReaderKinds : Open(kind)
    \/ ReadHeader
    \/ ReadIndexEntry
    \/ CheckLastId
    \/ ReadResource
    \/ ReadReturn

Spec == Init /\ [][Next]_vars

\* a stream of unknown origin is read
NextStream ==
    \/ \E kind \in ReaderKinds : Open(kind)
    \/ ReadHeader
    \/ ReadIndexEntry
    \/ CheckLastId
    \/ ReadResource
    \/ ReadReturn

SpecStream == InitStream /\ [][NextStream]_vars

(***************************************************************************)
(* Reading a written stream back, independently of Read.                   *)
(***************************************************************************)
\* Write has returned nil: stream holds what it wrote for p
Written == pc \notin {"build", "failed"}

\* the k-th index entry of a stream, counted from 1
EntryAt(s, k) ==
    LET at == headerLength + 6 * (k - 1)
    IN  [id |-> FromLE(SubSeq(s, at + 1, at + 2)), offset |-> FromLE32(SubSeq(s, at + 3, at + 6))]

(***************************************************************************)
(* C1. Round trip: Read of the bytes Write produced for a table whose      *)
(* identifiers are all in 1..65535 succeeds and returns a table with the   *)
(* same Version, Encoding and identifier-to-bytes mapping.                 *)
(* The statement fails: see C1_RoundTrip's trace (a bytes.Reader at the    *)
(* end of its data answers a read of zero bytes with io.EOF).              *)
(***************************************************************************)
C1_RoundTrip ==
    (pc = "done" /\ 0 \notin DOMAIN p[1].Resourses)
        => (ret.err = ErrNil /\ ret.pak = p)

(***************************************************************************)
(* C2. Determinism: whatever order the map yields its keys in, Write       *)
(* produces the same bytes for the same table.                             *)
(***************************************************************************)
C2_Deterministic ==
    Written => \A order \in KeyOrders(DOMAIN p[1].Resourses) : WriteBytes(p[1], order) = stream

C2_Witness ==
    /\ pc = "written"
    /\ Cardinality(DOMAIN p[1].Resourses) >= 2
    /\ \E a, b \in DOMAIN p[1].Resourses : p[1].Resourses[a] # p[1].Resourses[b]

(***************************************************************************)
(* C3. Ascending order: the non-terminal index entries of Write's output   *)
(* are the table's identifiers in strictly ascending numeric order, and    *)
(* the payloads follow the index in that same order with nothing between.  *)
(***************************************************************************)
C3_AscendingOrder ==
    Written =>
        LET res == p[1].Resourses
            n == Cardinality(DOMAIN res)
        IN  /\ Len(stream) >= headerLength + 6 * (n + 1)
            /\ \A k \in 1..(n - 1) : EntryAt(stream, k).id < EntryAt(stream, k + 1).id
            /\ {EntryAt(stream, k).id : k \in 1..n} = DOMAIN res
            /\ SubSeq(stream, headerLength + 6 * (n + 1) + 1, Len(stream))
                   = Flatten([k \in 1..n |-> res[EntryAt(stream, k).id]])

C3_Witness ==
    /\ pc = "written"
    /\ DOMAIN p[1].Resourses = {7, 300}
    /\ p[1].Resourses[7] = << 97 >>
    /\ p[1].Resourses[300] = << 98 >>
    /\ EntryAt(stream, 1).id = 7
    /\ EntryAt(stream, 2).id = 300

(***************************************************************************)
(* C4. Offsets: the first entry's offset is 9 + 6*(N+1); each following    *)
(* offset is the previous one plus the previous resource's length; each    *)
(* offset is the position in the output where that resource's payload      *)
(* begins; the terminal entry is (0, length of the output); an empty table *)
(* gives exactly 15 bytes.                                                 *)
(***************************************************************************)
C4_Offsets ==
    Written =>
        LET res == p[1].Resourses
            n == Cardinality(DOMAIN res)
        IN  /\ Len(stream) >= headerLength + 6 * (n + 1)
            /\ EntryAt(stream, 1).offset = U32(9 + 6 * (n + 1))
            /\ \A k \in 1..n :
                   LET e == EntryAt(stream, k)
                   IN  /\ e.id \in DOMAIN res
                       /\ EntryAt(stream, k + 1).offset = Add32(e.offset, U32(Len(res[e.id])))
                       /\ e.offset[1] = 0
                       /\ e.offset[2] + Len(res[e.id]) <= Len(stream)
                       /\ SubSeq(stream, e.offset[2] + 1, e.offset[2] + Len(res[e.id])) = res[e.id]
            /\ EntryAt(stream, n + 1) = [id |-> 0, offset |-> U32(Len(stream))]
            /\ (n = 0 => Len(stream) = 15)

C4_Witness ==
    /\ pc = "written"
    /\ Cardinality(DOMAIN p[1].Resourses) = 2
    /\ \A id \in DOMAIN p[1].Resourses : p[1].Resourses[id] # << >>
    /\ EntryAt(stream, 3) = [id |-> 0, offset |-> U32(Len(stream))]

(***************************************************************************)
(* Shapes of a stream, read off its bytes.                                 *)
(***************************************************************************)
\* the header's resource_count
CountOf(s) == FromLE32(SubSeq(s, 5, 8))

\* a complete header and a complete index of resource_count + 1 entries
CompleteIndex(s) ==
    /\ Len(s) >= headerLength
    /\ CountOf(s)[1] = 0
    /\ Len(s) >= headerLength + 6 * (CountOf(s)[2] + 1)

\* the payload the k-th entry's offsets delimit
PayloadAt(s, k) == SubSeq(s, EntryAt(s, k).offset[2] + 1, EntryAt(s, k + 1).offset[2])

\* what Write would have produced, but for the order of the identifiers
WellFormed(s) ==
    /\ CompleteIndex(s)
    /\ LET c == CountOf(s)[2]
       IN  /\ EntryAt(s, c + 1).id = 0
           /\ \A k \in 1..c : EntryAt(s, k).id # 0
           /\ EntryAt(s, 1).offset = U32(headerLength + 6 * (c + 1))
           /\ \A k \in 1..c : ~ Lt32(EntryAt(s, k + 1).offset, EntryAt(s, k).offset)
           /\ EntryAt(s, c + 1).offset = U32(Len(s))

\* two non-terminal entries carry the same identifier
HasDuplicate(s) ==
    \E j, k \in 1..CountOf(s)[2] : j < k /\ EntryAt(s, j).id = EntryAt(s, k).id

(***************************************************************************)
(* C5. Truncation: when the length computed for a resource exceeds the     *)
(* bytes remaining in the stream, Read fails with the error that names     *)
(* that resource's identifier and returns no table, whether some bytes     *)
(* remain or none.                                                         *)
(* The statement fails when none remain: Read returns the reader's io.EOF. *)
(***************************************************************************)
C5_Truncation ==
    [][(/\ pc = "resources"
        /\ Lt32(i, numberOfResources)
        /\ Lt32(U32(Len(stream) - pos), ResLength(resInfos, i)))
       => (/\ pc' = "done"
           /\ ret'.pak = Nil
           /\ ret'.err = ErrResource(resInfos[ToInt(i) + 1].id))]_vars

(***************************************************************************)
(* C6. Sentinel: a stream with a complete header and a complete index      *)
(* whose last entry has a non-zero identifier makes Read fail with the     *)
(* "last id != 0" error; no table is returned and no payload is ever put   *)
(* in a table, whatever bytes follow the index.                            *)
(***************************************************************************)
C6_SentinelEnforced ==
    (CompleteIndex(stream) /\ EntryAt(stream, CountOf(stream)[2] + 1).id # 0)
        => /\ pc # "resources"
           /\ ret.pak = Nil
           /\ (pak # Nil => pak[1].Resourses = EmptyMap)
           /\ (pc = "done" => ret.err = ErrLastId)

C6_Witness ==
    /\ CompleteIndex(stream)
    /\ CountOf(stream)[2] >= 1
    /\ EntryAt(stream, CountOf(stream)[2] + 1).id # 0
    /\ Len(stream) > headerLength + 6 * (CountOf(stream)[2] + 1)
    /\ pc = "done"
    /\ ret = [pak |-> Nil, err |-> ErrLastId]

(***************************************************************************)
(* C7. Reserved identifier: 0 is never a key of a table Read returns.      *)
(* The statement fails: Read checks the last entry's identifier only.      *)
(***************************************************************************)
C7_ZeroReserved ==
    ret.pak # Nil => 0 \notin DOMAIN ret.pak[1].Resourses

(***************************************************************************)
(* C8. Zero-length resource: Write gives an empty payload the offset of    *)
(* the next index entry and writes no bytes for it (one empty resource     *)
(* makes 21 bytes), and Read of that output succeeds and maps the          *)
(* identifier to an empty payload, also when the empty resource is last.   *)
(* The statement fails in its last part, for a bytes.Reader.               *)
(***************************************************************************)
C8_ZeroLength ==
    (Written /\ 0 \notin DOMAIN p[1].Resourses) =>
        LET res == p[1].Resourses
            n == Cardinality(DOMAIN res)
            empty == {id \in DOMAIN res : res[id] = << >>}
        IN  /\ \A k \in 1..n :
                   EntryAt(stream, k).id \in empty
                       => EntryAt(stream, k).offset = EntryAt(stream, k + 1).offset
            /\ (n = 1 /\ empty = DOMAIN res => Len(stream) = 21)
            /\ (pc = "done" /\ empty # {}
                   => /\ ret.err = ErrNil
                      /\ ret.pak # Nil
                      /\ \A id \in empty :
                             /\ id \in DOMAIN ret.pak[1].Resourses
                             /\ ret.pak[1].Resourses[id] = << >>)

(***************************************************************************)
(* C9. Index size: Read leaves the index loop having read exactly          *)
(* resource_count + 1 entries, or with the error of a stream that ended;   *)
(* the number of entries never wraps and the check of the last identifier  *)
(* never looks at an entry that was not read.                              *)
(* The statement fails for resource_count = 2^32 - 1: no entry is read and *)
(* the check indexes an empty slice.                                       *)
(***************************************************************************)
C9_IndexSize ==
    [][(pc = "index" /\ pc' # "index")
       => \/ ret'.err \in {EOF, ErrUnexpectedEOF}
          \/ /\ numberOfResources # MaxU32
             /\ i = Add32(numberOfResources, U32(1))
             /\ ret'.err # PanicIndex]_vars

(***************************************************************************)
(* C10. Duplicate identifiers: a stream that is well-formed but for two    *)
(* non-terminal entries with the same identifier is not rejected: Read     *)
(* consumes the payloads of both entries, keeps the later one's under the  *)
(* identifier and returns fewer than resource_count resources.             *)
(* The statement fails when the last payload is empty and the reader is a  *)
(* bytes.Reader (the failure of C8).                                       *)
(***************************************************************************)
C10_Duplicates ==
    (pc = "done" /\ WellFormed(stream) /\ HasDuplicate(stream))
        => LET c == CountOf(stream)[2]
           IN  /\ ret.err = ErrNil
               /\ ret.pak # Nil
               /\ pos = Len(stream)
               /\ Cardinality(DOMAIN ret.pak[1].Resourses) < c
               /\ \A k \in 1..c :
                      (\A j \in (k + 1)..c : EntryAt(stream, j).id # EntryAt(stream, k).id)
                          => ret.pak[1].Resourses[EntryAt(stream, k).id] = PayloadAt(stream, k)

====
